---- MODULE Spec2Model ----
(***************************************************************************)
(* A model of web.go's request dispatcher (routeHandler), its Context, its *)
(* signed cookies and its session handlers (memory, cookie, file, dummy),  *)
(* with the background session cleaners.                                   *)
(*                                                                         *)
(* Strings are sequences of one-character strings.  A route pattern is a   *)
(* sequence of tokens: a literal character, or a capture group "([cs]+)"   *)
(* over a character class cs.  Session maps are Go maps, that is           *)
(* references: the heap maps a reference to the contents of the map.       *)
(***************************************************************************)
EXTENDS Integers, Sequences, FiniteSets, TLC

\* ---------------------------------------------------------------- bounds
MaxPathLen == 2        \* longest request path drawn
MaxRoutes == 2         \* longest route table drawn
MaxNow == 2            \* the clock stops ticking here
MaxSessionLength == 1  \* largest configured session length
MaxOps == 2            \* most Context calls one handler invocation makes
MaxRequests == 2       \* most requests the client sends
MaxShared == 3         \* the same, where two requests share a stored session

\* ------------------------------------------------------- program constants
DefaultSessionLength == 600
CookieMaxAge == 2678400     \* 31*86400

Alphabet == {"/", "a", "b"}
Methods == {"GET", "POST", "HEAD"}
Reqs == {1, 2}
Ids == {"x1", "x2"}
Keys == {"num"}

\* ------------------------------------------------------ regular expressions
Lit(c) == [grp |-> FALSE, cs |-> {c}]
Grp(S) == [grp |-> TRUE, cs |-> S]

NoMatch == <<>>

RECURSIVE Run(_, _, _)
\* the number of consecutive characters of s from position i that lie in cs
Run(cs, s, i) ==
    IF i <= Len(s) /\ s[i] \in cs THEN 1 + Run(cs, s, i + 1) ELSE 0

RECURSIVE Ends(_, _, _, _)
\* every way tokens k.. of pattern p match s from position i:
\* [end |-> the position after the match, caps |-> the captured substrings]
Ends(p, k, s, i) ==
    IF k > Len(p) THEN {[end |-> i, caps |-> <<>>]}
    ELSE IF ~p[k].grp
         THEN IF i <= Len(s) /\ s[i] \in p[k].cs
              THEN Ends(p, k + 1, s, i + 1)
              ELSE {}
         ELSE UNION {{[end |-> m.end, caps |-> <<SubSeq(s, i, i + n - 1)>> \o m.caps] :
                         m \in Ends(p, k + 1, s, i + n)} :
                     n \in 1..Run(p[k].cs, s, i)}

\* regexp.MatchStrings: the leftmost match, the longest at that start;
\* <<whole match, capture 1, ...>>, or the empty sequence when nothing matches
MatchStrings(p, s) ==
    LET starts == {i \in 1..(Len(s) + 1) : Ends(p, 1, s, i) # {}}
    IN  IF starts = {} THEN NoMatch
        ELSE LET i0 == CHOOSE i \in starts : \A j \in starts : i <= j
                 ms == Ends(p, 1, s, i0)
                 m  == CHOOSE x \in ms : \A y \in ms : y.end <= x.end
             IN  <<SubSeq(s, i0, m.end - 1)>> \o m.caps

\* regexp.MatchString
MatchString(p, s) == MatchStrings(p, s) # NoMatch

\* ------------------------------------------------------------------ routes
\* a handler as reflection sees it: whether its first parameter is *Context,
\* its number of parameters, and what it returns
Handler(name, takesCtx, numIn, ret) ==
    [name |-> name, takesCtx |-> takesCtx, numIn |-> numIn, ret |-> ret]

Route(r, method, handler) == [r |-> r, method |-> method, handler |-> handler]

\* web.Get / web.Post
Get(r, handler) == Route(r, "GET", handler)
Post(r, handler) == Route(r, "POST", handler)

\* the routes an application may register
RouteChoices ==
    { Get(<<Lit("/"), Grp({"a", "b"})>>, Handler("user", TRUE, 2, "string")),
      Get(<<Lit("/"), Lit("a")>>, Handler("admin", TRUE, 1, "other")),
      Post(<<Lit("/")>>, Handler("index", FALSE, 0, "string")),
      Get(<<Lit("a")>>, Handler("inner", TRUE, 1, "none")),
      Get(<<Lit("/"), Grp({"a"})>>, Handler("arity", TRUE, 1, "string")) }

RECURSIVE SeqsUpTo(_, _)
SeqsUpTo(S, n) ==
    IF n = 0 THEN {<<>>}
    ELSE LET shorter == SeqsUpTo(S, n - 1)
         IN  shorter \cup {Append(q, x) : q \in {t \in shorter : Len(t) = n - 1}, x \in S}

Paths == SeqsUpTo(Alphabet, MaxPathLen) \ {<<>>}

\* ------------------------------------------------------- session contents
\* a session value with its dynamic type; Nil marks an absent key
IntVal(n) == <<"int", n>>
FloatVal(n) == <<"float64", n>>
Nil == <<"nil", 0>>
Vals == {IntVal(0), FloatVal(0), FloatVal(1)}

\* make(Session)
EmptySession == [k \in Keys |-> Nil]

\* the bytes of a session file or of a sessionData payload: a JSON object
\* whose numbers carry no Go type (-1 marks an absent key), or zero bytes
EmptyBytes == [valid |-> FALSE, m |-> [k \in Keys |-> -1]]

\* json.Marshal of a Session
Marshal(c) == [valid |-> TRUE, m |-> [k \in Keys |-> IF c[k] = Nil THEN -1 ELSE c[k][2]]]

\* json.Unmarshal(data, &session): every JSON number arrives as a float64;
\* data that does not parse leaves the session as it was
Unmarshal(data, into) ==
    IF ~data.valid THEN into
    ELSE [k \in Keys |-> IF data.m[k] = -1 THEN into[k] ELSE FloatVal(data.m[k])]

\* ------------------------------------------------------------ secure cookies
\* base64.StdEncoding
B64(v) == <<"b64", v>>
UnB64(e) == e[2]

\* getCookieSig: HMAC-SHA1 keyed with the secret over value and timestamp
getCookieSig(key, val, timestamp) == <<key, val, timestamp>>

\* the wire value "val|timestamp|sig" of a cookie, and the absent cookie;
\* fields is the number of parts strings.Split(cookie, "|", 3) finds in it
Cookie(val, ts, sig) == [set |-> TRUE, val |-> val, ts |-> ts, sig |-> sig, fields |-> 3]
NoIdCookie ==
    [set |-> FALSE, val |-> B64(""), ts |-> 0, sig |-> getCookieSig("", B64(""), 0),
     fields |-> 3]
NoDataCookie ==
    [set |-> FALSE, val |-> B64(EmptyBytes), ts |-> 0,
     sig |-> getCookieSig("", B64(EmptyBytes), 0), fields |-> 3]
NoCookies == [sessionId |-> NoIdCookie, sessionData |-> NoDataCookie]

\* Context.GetSecureCookie indexes parts[1] and parts[2] of the split value
\* without looking at its length: the index is out of range, and the
\* goroutine panics, for a cookie of fewer than three fields
SplitPanics(cookie) == cookie.set /\ cookie.fields < 3

\* (mutant) the age test rejects a cookie that is exactly 31 days old
GetSecureCookieStrict(cookie, key, t, dflt) ==
    IF ~cookie.set THEN <<dflt, FALSE>>
    ELSE IF getCookieSig(key, cookie.val, cookie.ts) # cookie.sig THEN <<dflt, FALSE>>
    ELSE IF t - CookieMaxAge >= cookie.ts THEN <<dflt, FALSE>>
    ELSE <<UnB64(cookie.val), TRUE>>

\* Context.GetSecureCookie: <<value, ok>>; dflt is the zero value returned
\* with ok = FALSE
GetSecureCookie(cookie, key, t, dflt) ==
    IF ~cookie.set THEN <<dflt, FALSE>>
    ELSE IF getCookieSig(key, cookie.val, cookie.ts) # cookie.sig THEN <<dflt, FALSE>>
    ELSE IF t - CookieMaxAge > cookie.ts THEN <<dflt, FALSE>>
    ELSE <<UnB64(cookie.val), TRUE>>

\* Context.SetSecureCookie then Context.SetCookie: the Set-Cookie headers hdr
\* after the call; nothing is set when no secret is configured
SetSecureCookie(hdr, name, val, key, t) ==
    IF key = "" THEN hdr
    ELSE [hdr EXCEPT ![name] = Cookie(B64(val), t, getCookieSig(key, B64(val), t))]

\* ------------------------------------------------------------------- state
NilRef == 0
Refs == 1..(Cardinality(Ids) + Cardinality(Reqs))

VARIABLES
    routes,          \* the route table, in registration order
    secret,          \* the cookie secret ("" when none is configured)
    config,          \* the configuration: the session store it names ("" when
                     \* it names none) and whether the session directory exists
    sessionHandler,  \* the session backend in use
    sessionLength,   \* SessionLength of the backend, in seconds
    now,             \* time.Seconds()
    Sessions,        \* MemorySessionHandler.Sessions: Session Id -> map reference
    LastAccess,      \* MemorySessionHandler.LastAccess: Session Id -> seconds
    files,           \* the session directory: Session Id -> file
    heap,            \* map reference -> contents of the map
    sweeper,         \* the cleaner goroutine: where it is, the entries it has yet
                     \* to range over, the entry it is deleting, and the time
                     \* its pass began
    pc,              \* per request: where routeHandler is
    req,             \* per request: the Request (Method, Path, Cookies)
    ctx,             \* per request: the Context
    conn,            \* per request: what the connection was asked to do
    th,              \* per request: the matched route, its arguments, the number
                     \* of calls the handler made on the Context and the last
                     \* of them, the trace of load, call, return, save, and the
                     \* requests that held the same Session Id, loaded and not
                     \* yet saved, when this one loaded its session
    jar,             \* the cookies the client holds
    nreq             \* the number of requests received so far

vars == <<routes, secret, config, sessionHandler, sessionLength, now, Sessions, LastAccess,
          files, heap, sweeper, pc, req, ctx, conn, th, jar, nreq>>

storeVars == <<Sessions, LastAccess, files, sweeper>>
configVars == <<routes, secret, config, sessionHandler, sessionLength>>

NoHeaders == [sessionId |-> NoIdCookie, sessionData |-> NoDataCookie,
              ContentLength |-> FALSE, Location |-> FALSE]

\* *new(Context), with the connection's record of what it was asked
NewContext == [Session |-> NilRef, SessionId |-> "", responseStarted |-> FALSE]
NewConn == [log |-> <<>>, hdr |-> NoHeaders, sent |-> NoHeaders]
NoRequest == [Method |-> "GET", Path |-> <<"/">>, Cookies |-> NoCookies]
NoCall == [ri |-> 0, args |-> <<>>, ops |-> 0, op |-> "", ev |-> <<>>, peers |-> {}]

Backends == {"memory_v0", "memory", "cookie", "file", "dummy"}

\* a configuration
Config(store, dir) == [store |-> store, dir |-> dir]

\* the store names a configuration may hold, one of them unknown
StoreTypes == {"", "memory", "cookie", "file", "redis"}

\* (mutant) the handler whose Init failed is kept
InitSessionHandlerKept(storeType, dirExists) ==
    CASE storeType = "memory" -> "memory"
      [] storeType = "cookie" -> "cookie"
      [] storeType = "file" -> "file"
      [] OTHER -> "dummy"

\* InitSessionHandler: the backend chosen for a configured store name
\* ("" when the configuration has no session store) and a session directory
\* that exists or not
InitSessionHandler(storeType, dirExists) ==
    CASE storeType = "memory" -> "memory"
      [] storeType = "cookie" -> "cookie"
      [] storeType = "file" -> IF dirExists THEN "file" ELSE "dummy"
      [] OTHER -> "dummy"

\* Go maps as partial functions
EmptyMap == [i \in {} |-> 0]
Put(f, k, v) == [i \in DOMAIN f \cup {k} |-> IF i = k THEN v ELSE f[i]]
Del(f, k) == [i \in DOMAIN f \ {k} |-> f[i]]

Idle == /\ now = 1
        /\ Sessions = EmptyMap
        /\ LastAccess = EmptyMap
        /\ files = EmptyMap
        /\ heap = [x \in Refs |-> EmptySession]
        /\ sweeper = [pc |-> "wait", todo |-> {}, cur |-> "", start |-> 0]
        /\ pc = [r \in Reqs |-> "idle"]
        /\ req = [r \in Reqs |-> NoRequest]
        /\ ctx = [r \in Reqs |-> NewContext]
        /\ conn = [r \in Reqs |-> NewConn]
        /\ th = [r \in Reqs |-> NoCall]
        /\ jar = NoCookies
        /\ nreq = 0

RouteTables == SeqsUpTo(RouteChoices, MaxRoutes)

Init == /\ routes \in RouteTables
        /\ secret \in {"", "k"}
        /\ config \in {Config(s, d) : s \in StoreTypes, d \in BOOLEAN}
        /\ sessionHandler \in {"memory_v0", InitSessionHandler(config.store, config.dir)}
        /\ sessionLength \in 1..MaxSessionLength
        /\ Idle

\* ------------------------------------------------------------- the Context
\* what a connection is asked to do, in order: start the response with a
\* status, or write data
StatusEv(status) == [k |-> "status", n |-> status, d |-> ""]
WriteEv(data) == [k |-> "write", n |-> 0, d |-> data]
IsStatus(e) == e.k = "status"
IsWrite(e) == e.k = "write"
Statuses(c) == SelectSeq(c.log, IsStatus)
Body(c) == SelectSeq(c.log, IsWrite)

\* conn.StartResponse: the status line goes out with the headers set so far
ConnStartResponse(c, status) ==
    [c EXCEPT !.log = Append(@, StatusEv(status)),
              !.sent = IF Statuses(c) = <<>> THEN c.hdr ELSE @]

\* conn.Write
ConnWrite(c, data) == [c EXCEPT !.log = Append(@, WriteEv(data))]

\* a Context with its connection, as the pair the methods below transform
CC(x, c) == [ctx |-> x, conn |-> c]

\* Context.StartResponse
StartResponse(cc, status) ==
    CC([cc.ctx EXCEPT !.responseStarted = TRUE], ConnStartResponse(cc.conn, status))

\* (mutant) the data is written before the response is started
WriteDataFirst(cc, method, data) ==
    LET written == CC(cc.ctx, ConnWrite(cc.conn, IF method = "HEAD" THEN "" ELSE data))
    IN  IF ~cc.ctx.responseStarted THEN StartResponse(written, 200) ELSE written

\* Context.Write; a HEAD request gets blank data
Write(cc, method, data) ==
    LET started == IF ~cc.ctx.responseStarted THEN StartResponse(cc, 200) ELSE cc
    IN  CC(started.ctx, ConnWrite(started.conn, IF method = "HEAD" THEN "" ELSE data))

\* Context.WriteString
WriteString(cc, method, content) == Write(cc, method, content)

\* Context.Abort
Abort(cc, method, status, body) == WriteString(StartResponse(cc, status), method, body)

\* Context.Redirect
Redirect(cc, method, status, url) ==
    LET located == CC(cc.ctx, [cc.conn EXCEPT !.hdr.Location = TRUE])
    IN  WriteString(StartResponse(located, status), method, "Redirecting to: url")

\* Context.NotFound
NotFound(cc, method, message) == WriteString(StartResponse(cc, 404), method, message)

\* ---------------------------------------------------------------- dispatch
\* (mutant) the test of one route without the comparison of lengths
AcceptsPart(route, method, path) ==
    /\ ~(method # route.method /\ ~(method = "HEAD" /\ route.method = "GET"))
    /\ MatchString(route.r, path)

\* (mutant) the test of one route with HEAD standing in for every method
AcceptsHead(route, method, path) ==
    /\ ~(method # route.method /\ ~(method = "HEAD"))
    /\ MatchString(route.r, path)
    /\ Len(MatchStrings(route.r, path)[1]) = Len(path)

\* routeHandler's test of one route: the method rule, then the pattern must
\* match and its match must span the whole path
Accepts(route, method, path) ==
    /\ ~(method # route.method /\ ~(method = "HEAD" /\ route.method = "GET"))
    /\ MatchString(route.r, path)
    /\ Len(MatchStrings(route.r, path)[1]) = Len(path)

\* (mutant) the loop keeps going after a route is found: the last one wins
FindRouteLast(rs, method, path, i) ==
    LET acc == {j \in i..Len(rs) : Accepts(rs[j], method, path)}
    IN  IF acc = {} THEN 0 ELSE CHOOSE j \in acc : \A k \in acc : k <= j

RECURSIVE FindRoute(_, _, _, _)
\* routeHandler's loop from index i: the first route that is not skipped, 0
\* when every route is
FindRoute(rs, method, path, i) ==
    IF i > Len(rs) THEN 0
    ELSE IF Accepts(rs[i], method, path) THEN i
    ELSE FindRoute(rs, method, path, i + 1)

\* (mutant) the capture groups are not bound
BoundArgsNoCaptures(route, path) ==
    IF route.handler.numIn > 0 /\ route.handler.takesCtx THEN <<"ctx">> ELSE <<>>

\* the arguments routeHandler binds: the Context when the handler's first
\* parameter is *Context, then one string per capture group
BoundArgs(route, path) ==
    (IF route.handler.numIn > 0 /\ route.handler.takesCtx THEN <<"ctx">> ELSE <<>>)
        \o Tail(MatchStrings(route.r, path))

\* routeHandler from its entry to the session load, on the first free of the
\* server's request goroutines: a static file is served,
\* or the first accepting route is bound (500 when the arity differs), or
\* index.html is served, or 404
RequestUpTo(r, limit, methods, paths, presented) ==
    /\ pc[r] = "idle"
    /\ \A q \in Reqs : q < r => pc[q] # "idle"
    /\ nreq < limit
    /\ nreq' = nreq + 1
    /\ \E method \in methods, path \in paths, cookies \in presented,
          static \in BOOLEAN, index \in BOOLEAN :
        LET cc0 == CC(NewContext, NewConn)
            i == FindRoute(routes, method, path, 1)
        IN  /\ req' = [req EXCEPT ![r] =
                          [Method |-> method, Path |-> path, Cookies |-> cookies]]
            /\ jar' = cookies
            /\ IF static /\ method \in {"GET", "HEAD"}
               THEN /\ pc' = [pc EXCEPT ![r] = "static"]
                    /\ th' = [th EXCEPT ![r] = NoCall]
                    /\ ctx' = [ctx EXCEPT ![r] = cc0.ctx]
                    /\ conn' = [conn EXCEPT ![r] = cc0.conn]
               ELSE IF i # 0
               THEN LET args == BoundArgs(routes[i], path)
                    IN  IF Len(args) # routes[i].handler.numIn
                        THEN LET cc == Abort(cc0, method, 500, "Server Error")
                             IN  /\ pc' = [pc EXCEPT ![r] = "done"]
                                 /\ th' = [th EXCEPT ![r] = [NoCall EXCEPT !.ri = i]]
                                 /\ ctx' = [ctx EXCEPT ![r] = cc.ctx]
                                 /\ conn' = [conn EXCEPT ![r] = cc.conn]
                        ELSE /\ pc' = [pc EXCEPT ![r] = "load"]
                             /\ th' = [th EXCEPT ![r] =
                                          [NoCall EXCEPT !.ri = i, !.args = args]]
                             /\ ctx' = [ctx EXCEPT ![r] = cc0.ctx]
                             /\ conn' = [conn EXCEPT ![r] = cc0.conn]
               ELSE IF path = <<"/">> /\ index
               THEN /\ pc' = [pc EXCEPT ![r] = "static"]
                    /\ th' = [th EXCEPT ![r] = NoCall]
                    /\ ctx' = [ctx EXCEPT ![r] = cc0.ctx]
                    /\ conn' = [conn EXCEPT ![r] = cc0.conn]
               ELSE LET cc == Abort(cc0, method, 404, "Page not found")
                    IN  /\ pc' = [pc EXCEPT ![r] = "done"]
                        /\ th' = [th EXCEPT ![r] = NoCall]
                        /\ ctx' = [ctx EXCEPT ![r] = cc.ctx]
                        /\ conn' = [conn EXCEPT ![r] = cc.conn]
    /\ UNCHANGED <<configVars, now, storeVars, heap>>

\* the same, for the number of requests most specifications look at
RequestWith(r, methods, paths, presented) ==
    RequestUpTo(r, MaxRequests, methods, paths, presented)

\* the client sends the cookies it holds or, having dropped them, none
RequestOf(r, methods, paths) == RequestWith(r, methods, paths, {jar, NoCookies})

\* the timestamps of the cookies a client may hold from earlier: 31 days and
\* a second before the first instant, 31 days before it, and that instant
Stamps == {0 - CookieMaxAge, 1 - CookieMaxAge, 1}

\* the secrets a cookie may have been signed with: none, and the server's
SigKeys == {"", "k"}

\* the sessionId cookie values a client can put on the wire: a Session Id
\* signed at some time with some key, whole or cut after one or two fields
WireCookies ==
    {[Cookie(B64(id), ts, getCookieSig(k, B64(id), ts)) EXCEPT !.fields = f] :
        id \in Ids, ts \in Stamps, k \in SigKeys, f \in 1..3}

\* the cookies a request may bring: of those the client holds, any part (a
\* browser drops an expired cookie), the sessionData cookie possibly cut, and
\* any sessionId value there is
Presented ==
    {[sessionId |-> a, sessionData |-> b] :
        a \in WireCookies \cup {jar.sessionId, NoIdCookie},
        b \in {jar.sessionData, NoDataCookie, [jar.sessionData EXCEPT !.fields = 2]}}

\* the client sends any request
Request(r) == RequestWith(r, Methods, Paths, Presented)

\* ---------------------------------------------------------------- sessions
\* the map references in use: those the store holds and those a Context holds
Reach(S, cx) == {S[i] : i \in DOMAIN S} \cup {cx[r].Session : r \in Reqs}

\* make(Session): a reference nothing holds
Fresh(S, cx) == CHOOSE x \in Refs \ Reach(S, cx) : \A y \in Refs \ Reach(S, cx) : x <= y

\* garbage collection: a map nothing refers to is gone
Collect(h, S, cx) == [x \in Refs |-> IF x \in Reach(S, cx) THEN h[x] ELSE EmptySession]

\* what a session load or save works on: the store, the heap, and of the
\* Context its Session, its SessionId and the headers set on its connection
World(r) == [Sessions |-> Sessions, LastAccess |-> LastAccess, files |-> files,
             heap |-> heap, Session |-> ctx[r].Session, SessionId |-> ctx[r].SessionId,
             hdr |-> conn[r].hdr]

\* LoadSessionId: the Session Id of a valid signed sessionId cookie, else a
\* random one (rnd), issued as a signed cookie
LoadSessionId(w, cookies, key, t, rnd) ==
    LET got == GetSecureCookie(cookies.sessionId, key, t, "")
    IN  IF ~got[2]
        THEN [w EXCEPT !.hdr = SetSecureCookie(w.hdr, "sessionId", rnd, key, t),
                       !.SessionId = rnd]
        ELSE [w EXCEPT !.SessionId = got[1]]

\* MemorySessionHandler.LoadSession; new is the reference make(Session) yields
MemoryLoadSession(w, cookies, key, t, rnd, new) ==
    LET w1 == LoadSessionId(w, cookies, key, t, rnd)
        id == w1.SessionId
    IN  [w1 EXCEPT !.Session = IF id \in DOMAIN w.Sessions THEN w.Sessions[id] ELSE new,
                   !.LastAccess = Put(w.LastAccess, id, t)]

\* MemorySessionHandler.SaveSession
MemorySaveSession(w) == [w EXCEPT !.Sessions = Put(w.Sessions, w.SessionId, w.Session)]

\* MemorySessionHandler.ParseSession, the handler routeHandler's file defines
MemoryParseSession(w, cookies, key, t, rnd, new) ==
    LET got == GetSecureCookie(cookies.sessionId, key, t, "")
    IN  IF ~got[2]
        THEN [w EXCEPT !.hdr = SetSecureCookie(w.hdr, "sessionId", rnd, key, t),
                       !.SessionId = rnd,
                       !.Session = new]
        ELSE [w EXCEPT !.SessionId = got[1],
                       !.Session = IF got[1] \in DOMAIN w.Sessions
                                   THEN w.Sessions[got[1]] ELSE new,
                       !.LastAccess = Put(w.LastAccess, got[1], t)]

\* MemorySessionHandler.StoreSession
MemoryStoreSession(w) == [w EXCEPT !.Sessions = Put(w.Sessions, w.SessionId, w.Session)]

\* CookieSessionHandler.LoadSession
CookieLoadSession(w, cookies, key, t, rnd, new) ==
    LET w1 == LoadSessionId(w, cookies, key, t, rnd)
        got == GetSecureCookie(cookies.sessionData, key, t, EmptyBytes)
    IN  [w1 EXCEPT !.Session = new,
                   !.heap[new] = IF got[2] THEN Unmarshal(got[1], EmptySession)
                                 ELSE EmptySession]

\* CookieSessionHandler.SaveSession
CookieSaveSession(w, key, t) ==
    [w EXCEPT !.hdr = SetSecureCookie(w.hdr, "sessionData", Marshal(w.heap[w.Session]), key, t)]

\* a session file: its bytes, its modification time, its permission bits
File(data, mtime, mode) == [data |-> data, mtime |-> mtime, mode |-> mode]
\* the owner may read a file whose mode has the 0400 bit
Readable(f) == (f.mode \div 256) % 2 = 1
\* ioutil.WriteFile: the permission applies only when the file is created
WriteFile(fs, name, data, perm, t) ==
    Put(fs, name, File(data, t, IF name \in DOMAIN fs THEN fs[name].mode ELSE perm))

\* FileSessionHandler.LoadSession
FileLoadSession(w, cookies, key, t, rnd, new) ==
    LET w1 == LoadSessionId(w, cookies, key, t, rnd)
        id == w1.SessionId
    IN  IF id \notin DOMAIN w.files
        THEN [w1 EXCEPT !.Session = new,
                        !.heap[new] = EmptySession,
                        !.files = WriteFile(w.files, id, EmptyBytes, 432, t)]
        ELSE [w1 EXCEPT !.Session = new,
                        !.heap[new] = IF Readable(w.files[id])
                                      THEN Unmarshal(w.files[id].data, EmptySession)
                                      ELSE EmptySession]

\* FileSessionHandler.SaveSession
FileSaveSession(w, t) ==
    [w EXCEPT !.files = WriteFile(w.files, w.SessionId, Marshal(w.heap[w.Session]), 660, t)]

\* DummySessionHandler.LoadSession and SaveSession
DummyLoadSession(w, new) == [w EXCEPT !.Session = new, !.heap[new] = EmptySession]
DummySaveSession(w) == w

\* SessionHandler.LoadSession (ParseSession), on the backend in use, for a
\* request that brings the cookies c
Load(r, c, rnd) ==
    LET new == Fresh(Sessions, ctx)
        w0 == [World(r) EXCEPT !.heap[new] = EmptySession]
    IN  CASE sessionHandler = "memory_v0" ->
                 MemoryParseSession(w0, c, secret, now, rnd, new)
           [] sessionHandler = "memory" ->
                 MemoryLoadSession(w0, c, secret, now, rnd, new)
           [] sessionHandler = "cookie" ->
                 CookieLoadSession(w0, c, secret, now, rnd, new)
           [] sessionHandler = "file" ->
                 FileLoadSession(w0, c, secret, now, rnd, new)
           [] OTHER -> DummyLoadSession(w0, new)

\* the session load reads a cookie whose split panics
LoadPanics(c) ==
    \/ sessionHandler \in {"memory_v0", "memory", "cookie", "file"} /\ SplitPanics(c.sessionId)
    \/ sessionHandler = "cookie" /\ SplitPanics(c.sessionData)

\* the session load routeHandler calls
LoadSession(r) ==
    /\ pc[r] = "load"
    /\ ~LoadPanics(req[r].Cookies)
    /\ \E rnd \in Ids :
        LET w == Load(r, req[r].Cookies, rnd)
        IN  /\ ctx' = [ctx EXCEPT ![r].Session = w.Session, ![r].SessionId = w.SessionId]
            /\ conn' = [conn EXCEPT ![r].hdr = w.hdr]
            /\ Sessions' = w.Sessions
            /\ LastAccess' = w.LastAccess
            /\ files' = w.files
            /\ heap' = w.heap
            /\ th' = [th EXCEPT ![r].ev = Append(@, "load"),
                                ![r].peers = {q \in Reqs \ {r} :
                                                 /\ pc[q] \in {"call", "handler", "save"}
                                                 /\ ctx[q].SessionId = w.SessionId}]
    /\ pc' = [pc EXCEPT ![r] = "call"]
    /\ UNCHANGED <<nreq, configVars, now, sweeper, req, jar>>

\* the session load panics in GetSecureCookie: routeHandler never returns
LoadSessionPanic(r) ==
    /\ pc[r] = "load"
    /\ LoadPanics(req[r].Cookies)
    /\ pc' = [pc EXCEPT ![r] = "panic"]
    /\ UNCHANGED <<nreq, configVars, now, storeVars, heap, req, ctx, conn, th, jar>>

\* the session save routeHandler calls, on the backend in use
SaveSession(r) ==
    /\ pc[r] = "save"
    /\ LET w == CASE sessionHandler = "memory_v0" -> MemoryStoreSession(World(r))
                  [] sessionHandler = "memory" -> MemorySaveSession(World(r))
                  [] sessionHandler = "cookie" -> CookieSaveSession(World(r), secret, now)
                  [] sessionHandler = "file" -> FileSaveSession(World(r), now)
                  [] OTHER -> DummySaveSession(World(r))
       IN  /\ conn' = [conn EXCEPT ![r].hdr = w.hdr]
           /\ Sessions' = w.Sessions
           /\ files' = w.files
           /\ heap' = Collect(heap, w.Sessions, ctx)
    /\ pc' = [pc EXCEPT ![r] = "write"]
    /\ th' = [th EXCEPT ![r].ev = Append(@, "save")]
    /\ UNCHANGED <<nreq, configVars, now, LastAccess, sweeper, req, ctx, jar>>

\* ------------------------------------------------------------- the handler
\* route.handler.Call(valArgs): the handler is entered
Call(r) ==
    /\ pc[r] = "call"
    /\ pc' = [pc EXCEPT ![r] = "handler"]
    /\ th' = [th EXCEPT ![r].ev = Append(@, "call")]
    /\ UNCHANGED <<nreq, configVars, now, storeVars, heap, req, ctx, conn, jar>>

\* the calls a handler makes on its Context
CtxOps == {"Write", "WriteString", "Abort", "Redirect", "NotFound", "StartResponse"}

\* one call of the handler on its Context
ApplyOp(cc, method, op) ==
    CASE op = "Write" -> Write(cc, method, "data")
      [] op = "WriteString" -> WriteString(cc, method, "text")
      [] op = "Abort" -> Abort(cc, method, 403, "Forbidden")
      [] op = "Redirect" -> Redirect(cc, method, 302, "url")
      [] op = "NotFound" -> NotFound(cc, method, "Not found")
      [] OTHER -> StartResponse(cc, 201)

\* a handler that was given the Context calls one of its methods
HandlerOpOf(r, ops) ==
    /\ pc[r] = "handler"
    /\ routes[th[r].ri].handler.takesCtx
    /\ th[r].ops < MaxOps
    /\ \E op \in ops :
        LET cc == ApplyOp(CC(ctx[r], conn[r]), req[r].Method, op)
        IN  /\ ctx' = [ctx EXCEPT ![r] = cc.ctx]
            /\ conn' = [conn EXCEPT ![r] = cc.conn]
            /\ th' = [th EXCEPT ![r].ops = @ + 1, ![r].op = op]
    /\ UNCHANGED <<nreq, configVars, now, storeVars, heap, pc, req, jar>>

HandlerOp(r) == HandlerOpOf(r, CtxOps)

\* a handler that was given the Context assigns ctx.Session[k] = v
HandlerSet(r) ==
    /\ pc[r] = "handler"
    /\ routes[th[r].ri].handler.takesCtx
    /\ th[r].ops < MaxOps
    /\ \E k \in Keys, v \in {IntVal(0), FloatVal(1)} :
        heap' = [heap EXCEPT ![ctx[r].Session][k] = v]
    /\ th' = [th EXCEPT ![r].ops = @ + 1, ![r].op = "Session"]
    /\ UNCHANGED <<nreq, configVars, now, storeVars, pc, req, ctx, conn, jar>>

\* (mutant) routeHandler does not save the session after the call
HandlerReturnNoSave(r) ==
    /\ pc[r] = "handler"
    /\ pc' = [pc EXCEPT ![r] = "write"]
    /\ th' = [th EXCEPT ![r].ev = Append(@, "return")]
    /\ UNCHANGED <<nreq, configVars, now, storeVars, heap, req, ctx, conn, jar>>

\* the handler returns to routeHandler
HandlerReturn(r) ==
    /\ pc[r] = "handler"
    /\ pc' = [pc EXCEPT ![r] = "save"]
    /\ th' = [th EXCEPT ![r].ev = Append(@, "return")]
    /\ UNCHANGED <<nreq, configVars, now, storeVars, heap, req, ctx, conn, jar>>

\* the handler panics (a failed type assertion, say): the call never returns
HandlerPanic(r) ==
    /\ pc[r] = "handler"
    /\ pc' = [pc EXCEPT ![r] = "panic"]
    /\ UNCHANGED <<nreq, configVars, now, storeVars, heap, req, ctx, conn, th, jar>>

\* (mutant) a returned string is written whether or not the response has
\* been started
ReturnValueAlways(cc, method, ret) ==
    IF ret = "none" THEN cc
    ELSE IF ret = "string"
    THEN LET sized == CC(cc.ctx, [cc.conn EXCEPT !.hdr.ContentLength = TRUE])
         IN  Write(StartResponse(sized, 200), method, "ret")
    ELSE cc

\* routeHandler after the session save: a returned string is written when the
\* response has not been started
ReturnValue(cc, method, ret) ==
    IF ret = "none" THEN cc
    ELSE IF ret = "string" /\ ~cc.ctx.responseStarted
    THEN LET sized == CC(cc.ctx, [cc.conn EXCEPT !.hdr.ContentLength = TRUE])
         IN  Write(StartResponse(sized, 200), method, "ret")
    ELSE cc

WriteResult(r) ==
    /\ pc[r] = "write"
    /\ LET cc == ReturnValue(CC(ctx[r], conn[r]), req[r].Method, routes[th[r].ri].handler.ret)
       IN  /\ ctx' = [ctx EXCEPT ![r] = cc.ctx]
           /\ conn' = [conn EXCEPT ![r] = cc.conn]
    /\ pc' = [pc EXCEPT ![r] = "done"]
    /\ UNCHANGED <<nreq, configVars, now, storeVars, heap, req, th, jar>>

\* the cookies the client holds after the response: those among the headers
\* that went out with the status line (all of them when routeHandler returns
\* without having started the response: the server then starts it)
Received(held, c) ==
    LET out == IF Statuses(c) = <<>> THEN c.hdr ELSE c.sent
    IN  [sessionId |-> IF out.sessionId.set THEN out.sessionId ELSE held.sessionId,
         sessionData |-> IF out.sessionData.set THEN out.sessionData ELSE held.sessionData]

\* httpHandler returns: the response is complete, the Context is dropped
Respond(r) ==
    /\ pc[r] \in {"done", "static"}
    /\ jar' = IF pc[r] = "done" THEN Received(jar, conn[r]) ELSE jar
    /\ pc' = [pc EXCEPT ![r] = "idle"]
    /\ req' = [req EXCEPT ![r] = NoRequest]
    /\ ctx' = [ctx EXCEPT ![r] = NewContext]
    /\ conn' = [conn EXCEPT ![r] = NewConn]
    /\ th' = [q \in Reqs |-> IF q = r THEN NoCall ELSE [th[q] EXCEPT !.peers = @ \ {r}]]
    /\ heap' = Collect(heap, Sessions, ctx')
    /\ UNCHANGED <<nreq, configVars, now, storeVars>>

\* ------------------------------------------------------------- the cleaners
\* the test the cleaner goroutine of MemorySessionHandler.Init makes
MemoryExpired(lastAccessTime, length, t) == lastAccessTime + length > t

\* the test the cleaner goroutine of FileSessionHandler.Init makes
\* (file.Mtime_ns + SessionLength > time.Seconds(), in 64 bits; stated here
\* without the product, which the model checker's integers cannot hold)
NsPerSecond == 1000000000
FileExpired(f, length, t) == t - length < 0 \/ f.mtime > (t - length) \div NsPerSecond

\* the ticker fires: the cleaner starts to range over LastAccess (over the
\* session directory, for the file backend)
SweepBegin ==
    /\ sweeper.pc = "wait"
    /\ sessionHandler \in {"memory_v0", "memory", "file"}
    /\ sweeper' = [sweeper EXCEPT !.pc = "scan", !.start = now,
                      !.todo = IF sessionHandler = "file" THEN DOMAIN files
                               ELSE DOMAIN LastAccess]
    /\ UNCHANGED <<nreq, configVars, now, Sessions, LastAccess, files, heap, pc, req, ctx, conn,
                   th, jar>>

\* the memory cleaner looks at one entry and deletes its session
SweepCheck ==
    /\ sweeper.pc = "scan"
    /\ sessionHandler \in {"memory_v0", "memory"}
    /\ \E id \in sweeper.todo :
        IF id \in DOMAIN LastAccess /\ MemoryExpired(LastAccess[id], sessionLength, now)
        THEN /\ Sessions' = Del(Sessions, id)
             /\ heap' = Collect(heap, Sessions', ctx)
             /\ sweeper' = [sweeper EXCEPT !.pc = "del", !.cur = id, !.todo = @ \ {id}]
        ELSE /\ sweeper' = [sweeper EXCEPT !.todo = @ \ {id}]
             /\ UNCHANGED <<Sessions, heap>>
    /\ UNCHANGED <<nreq, configVars, now, LastAccess, files, pc, req, ctx, conn, th, jar>>

\* the memory cleaner deletes the last-access entry of the session it deleted
SweepDelete ==
    /\ sweeper.pc = "del"
    /\ LastAccess' = Del(LastAccess, sweeper.cur)
    /\ sweeper' = [sweeper EXCEPT !.pc = "scan", !.cur = ""]
    /\ UNCHANGED <<nreq, configVars, now, Sessions, files, heap, pc, req, ctx, conn, th, jar>>

\* the file cleaner looks at one file and removes it
FileSweepCheck ==
    /\ sweeper.pc = "scan"
    /\ sessionHandler = "file"
    /\ \E id \in sweeper.todo :
        /\ files' = IF id \in DOMAIN files /\ FileExpired(files[id], sessionLength, now)
                    THEN Del(files, id) ELSE files
        /\ sweeper' = [sweeper EXCEPT !.todo = @ \ {id}]
    /\ UNCHANGED <<nreq, configVars, now, Sessions, LastAccess, heap, pc, req, ctx, conn, th, jar>>

\* the cleaner has ranged over every entry and waits for the next tick
SweepEnd ==
    /\ sweeper.pc = "scan"
    /\ sweeper.todo = {}
    /\ sweeper' = [sweeper EXCEPT !.pc = "wait", !.start = 0]
    /\ UNCHANGED <<nreq, configVars, now, Sessions, LastAccess, files, heap, pc, req, ctx, conn,
                   th, jar>>

\* a second passes
Tick ==
    /\ now < MaxNow
    /\ now' = now + 1
    /\ UNCHANGED <<nreq, configVars, storeVars, heap, pc, req, ctx, conn, th, jar>>

Next ==
    \/ \E r \in Reqs : Request(r)
    \/ \E r \in Reqs : LoadSession(r)
    \/ \E r \in Reqs : LoadSessionPanic(r)
    \/ \E r \in Reqs : Call(r)
    \/ \E r \in Reqs : HandlerOp(r)
    \/ \E r \in Reqs : HandlerSet(r)
    \/ \E r \in Reqs : HandlerReturn(r)
    \/ \E r \in Reqs : HandlerPanic(r)
    \/ \E r \in Reqs : SaveSession(r)
    \/ \E r \in Reqs : WriteResult(r)
    \/ \E r \in Reqs : Respond(r)
    \/ SweepBegin
    \/ SweepCheck
    \/ SweepDelete
    \/ FileSweepCheck
    \/ SweepEnd
    \/ Tick

Spec == Init /\ [][Next]_vars

\* ------------------------------------------------------------ the dispatcher
\* one client, any route table, any request; no session backend configured
InitDispatch ==
    /\ routes \in RouteTables
    /\ secret = ""
    /\ config = Config("", FALSE)
    /\ sessionHandler = InitSessionHandler(config.store, config.dir)
    /\ sessionLength = DefaultSessionLength
    /\ Idle

NextDispatch ==
    \/ RequestOf(1, Methods, Paths)
    \/ LoadSession(1)
    \/ Call(1)
    \/ HandlerOp(1)
    \/ HandlerReturn(1)
    \/ HandlerPanic(1)
    \/ SaveSession(1)
    \/ WriteResult(1)
    \/ Respond(1)

SpecDispatch == InitDispatch /\ [][NextDispatch]_vars

\* --------------------------------------------------------- the memory store
\* concurrent requests for one page, the in-memory backend of either source
\* file, its cleaner and the clock
PageRoutes == <<Get(<<Lit("/")>>, Handler("index", TRUE, 1, "string"))>>

InitMemory ==
    /\ routes = PageRoutes
    /\ secret = "k"
    /\ config = Config("memory", FALSE)
    /\ sessionHandler \in {"memory_v0", InitSessionHandler(config.store, config.dir)}
    /\ sessionLength = MaxSessionLength
    /\ Idle

NextMemory ==
    \/ \E r \in Reqs : RequestOf(r, {"GET"}, {<<"/">>})
    \/ \E r \in Reqs : LoadSession(r)
    \/ \E r \in Reqs : Call(r)
    \/ \E r \in Reqs : HandlerSet(r)
    \/ \E r \in Reqs : HandlerReturn(r)
    \/ \E r \in Reqs : SaveSession(r)
    \/ \E r \in Reqs : WriteResult(r)
    \/ \E r \in Reqs : Respond(r)
    \/ SweepBegin
    \/ SweepCheck
    \/ SweepDelete
    \/ SweepEnd
    \/ Tick

SpecMemory == InitMemory /\ [][NextMemory]_vars

\* the same store between two passes of the cleaner, for a client that sends
\* a request and then two more at the same time
NextShared ==
    \/ \E r \in Reqs : RequestUpTo(r, MaxShared, {"GET"}, {<<"/">>}, {jar, NoCookies})
    \/ \E r \in Reqs : LoadSession(r)
    \/ \E r \in Reqs : Call(r)
    \/ \E r \in Reqs : HandlerSet(r)
    \/ \E r \in Reqs : HandlerReturn(r)
    \/ \E r \in Reqs : SaveSession(r)
    \/ \E r \in Reqs : WriteResult(r)
    \/ \E r \in Reqs : Respond(r)

SpecShared == InitMemory /\ [][NextShared]_vars

\* ------------------------------------------------------------- every backend
\* one client of one page, each backend InitSessionHandler can select, with
\* and without a cookie secret
InitBackends ==
    /\ routes = PageRoutes
    /\ secret \in {"", "k"}
    /\ config \in {Config("", FALSE), Config("memory", FALSE), Config("cookie", FALSE),
                    Config("file", TRUE)}
    /\ sessionHandler = InitSessionHandler(config.store, config.dir)
    /\ sessionLength = MaxSessionLength
    /\ Idle

NextBackends ==
    \/ RequestOf(1, {"GET"}, {<<"/">>})
    \/ LoadSession(1)
    \/ Call(1)
    \/ HandlerOpOf(1, {"Write"})
    \/ HandlerSet(1)
    \/ HandlerReturn(1)
    \/ SaveSession(1)
    \/ WriteResult(1)
    \/ Respond(1)
    \/ SweepBegin
    \/ SweepCheck
    \/ SweepDelete
    \/ FileSweepCheck
    \/ SweepEnd
    \/ Tick

SpecBackends == InitBackends /\ [][NextBackends]_vars

\* the same, between two passes of the cleaner goroutine
NextRoundTrip ==
    \/ RequestOf(1, {"GET"}, {<<"/">>})
    \/ LoadSession(1)
    \/ Call(1)
    \/ HandlerOpOf(1, {"Write"})
    \/ HandlerSet(1)
    \/ HandlerReturn(1)
    \/ SaveSession(1)
    \/ WriteResult(1)
    \/ Respond(1)
    \/ Tick

SpecRoundTrip == InitBackends /\ [][NextRoundTrip]_vars

\* any backend, one client that sends whatever cookies it likes
NextCookies ==
    \/ RequestWith(1, {"GET"}, {<<"/">>}, Presented)
    \/ LoadSession(1)
    \/ LoadSessionPanic(1)
    \/ Call(1)
    \/ HandlerSet(1)
    \/ HandlerReturn(1)
    \/ SaveSession(1)
    \/ WriteResult(1)
    \/ Respond(1)
    \/ Tick

SpecCookies == InitBackends /\ [][NextCookies]_vars

\* any configuration of the session store
InitConfig ==
    /\ routes = PageRoutes
    /\ secret = "k"
    /\ config \in {Config(s, d) : s \in StoreTypes, d \in BOOLEAN}
    /\ sessionHandler = InitSessionHandler(config.store, config.dir)
    /\ sessionLength = MaxSessionLength
    /\ Idle

SpecConfig == InitConfig /\ [][NextRoundTrip]_vars

\* ------------------------------------------------ properties of the dispatcher
Min(S) == CHOOSE x \in S : \A y \in S : x <= y

\* request r is being handled by routeHandler (past the static file test)
InFlight(r) == pc[r] \notin {"idle", "static"}

\* the handler of request r has been entered
Invoked(r) == \E k \in 1..Len(th[r].ev) : th[r].ev[k] = "call"

\* the method rule of the specification
MethodRule(method, route) ==
    method = route.method \/ (method = "HEAD" /\ route.method = "GET")

\* the pattern, anchored at both ends of the path, has a match
FullPath(route, path) == \E m \in Ends(route.r, 1, path, 1) : m.end = Len(path) + 1

\* the routes that accept request r, by index
Accepting(r) ==
    {i \in 1..Len(routes) :
        MethodRule(req[r].Method, routes[i]) /\ FullPath(routes[i], req[r].Path)}

\* C1: the handler invoked for a request is that of the lowest-index route
\* whose method rule and full-path pattern both accept it, whatever later
\* routes accept it too.
C1_FirstMatchWins ==
    \A r \in Reqs :
        Invoked(r) => Accepting(r) # {} /\ th[r].ri = Min(Accepting(r))

\* a handler runs for a request that two routes accept, and it is the first's
C1_Witness ==
    \E r \in Reqs :
        /\ Invoked(r)
        /\ Cardinality(Accepting(r)) >= 2
        /\ routes[1].handler.name # routes[2].handler.name
        /\ th[r].ri = 1

\* the span of the path that the pattern of route i matches, <<>> when none
Span(i, path) ==
    IF MatchString(routes[i].r, path) THEN MatchStrings(routes[i].r, path)[1] ELSE <<>>

\* route i matches a proper part of the path of request r only
PartOnly(r, i) == Span(i, req[r].Path) # <<>> /\ Span(i, req[r].Path) # req[r].Path

\* C2: a route whose pattern matches only a proper part (a prefix, an inner
\* span) of the request path is never the route selected for the request.
C2_NoPartialMatch ==
    \A r \in Reqs : \A i \in 1..Len(routes) :
        InFlight(r) /\ PartOnly(r, i) => th[r].ri # i

\* a request whose path the only route of its method matches in part is
\* answered without any route being selected
C2_Witness ==
    \E r \in Reqs :
        /\ pc[r] = "done"
        /\ th[r].ri = 0
        /\ \E i \in 1..Len(routes) : MethodRule(req[r].Method, routes[i]) /\ PartOnly(r, i)

\* C3 as stated: a selected route satisfies the method rule, and a request
\* that no route accepts by method and pattern invokes no handler and is
\* answered 404.
C3_Original ==
    \A r \in Reqs :
        /\ th[r].ri # 0 => MethodRule(req[r].Method, routes[th[r].ri])
        /\ pc[r] # "idle" /\ Accepting(r) = {} =>
              ~Invoked(r) /\ pc[r] = "done" /\ Statuses(conn[r]) = <<StatusEv(404)>>

\* C3, amended: a selected route satisfies the method rule, and a request
\* that no route accepts by method and pattern invokes no handler and is
\* answered 404, unless routeHandler serves a file for it (a static file for
\* GET or HEAD, index.html for the path "/").
C3_MethodRule ==
    \A r \in Reqs :
        /\ th[r].ri # 0 => MethodRule(req[r].Method, routes[th[r].ri])
        /\ InFlight(r) /\ Accepting(r) = {} =>
              ~Invoked(r) /\ pc[r] = "done" /\ Statuses(conn[r]) = <<StatusEv(404)>>

\* a request is answered 404 although the pattern of a route matches its
\* whole path: the route is registered for another method
C3_Witness ==
    \E r \in Reqs :
        /\ pc[r] = "done"
        /\ Statuses(conn[r]) = <<StatusEv(404)>>
        /\ \E i \in 1..Len(routes) :
              FullPath(routes[i], req[r].Path) /\ ~MethodRule(req[r].Method, routes[i])

\* the number of capture groups of a pattern
NumGroups(p) == Cardinality({k \in 1..Len(p) : p[k].grp})

\* the number of arguments routeHandler has for the handler of route i
NumBound(i) ==
    (IF routes[i].handler.takesCtx THEN 1 ELSE 0) + NumGroups(routes[i].r)

\* C4: when the number of bound arguments (the Context if the handler takes
\* it, one string per capture group) differs from the handler's arity, the
\* request is answered 500, the handler is not invoked, the session is neither
\* loaded nor saved, and no later route is tried.
C4_ArityMismatch ==
    \A r \in Reqs :
        InFlight(r) /\ Accepting(r) # {} =>
            LET i == Min(Accepting(r))
            IN  NumBound(i) # routes[i].handler.numIn =>
                    /\ pc[r] = "done"
                    /\ Statuses(conn[r]) = <<StatusEv(500)>>
                    /\ th[r].ev = <<>>
                    /\ th[r].ri = i

\* a request is answered 500 for the arity of the first accepting route
\* although a later route accepts it with the right arity
C4_Witness ==
    \E r \in Reqs :
        /\ pc[r] = "done"
        /\ Statuses(conn[r]) = <<StatusEv(500)>>
        /\ \E j \in Accepting(r) :
              j > Min(Accepting(r)) /\ NumBound(j) = routes[j].handler.numIn

IsPrefix(s, t) == Len(s) <= Len(t) /\ s = SubSeq(t, 1, Len(s))

\* what routeHandler does around a handler that returns, in order
Trace == <<"load", "call", "return", "save">>

\* the handler of request r has returned
Returned(r) == \E k \in 1..Len(th[r].ev) : th[r].ev[k] = "return"

\* C5: for a dispatched request whose handler returns, the session is loaded,
\* then the handler is invoked, then the session is saved, once, whatever the
\* handler did to the response and whatever it returned.
C5_LoadCallSave ==
    \A r \in Reqs :
        /\ IsPrefix(th[r].ev, Trace)
        /\ pc[r] \in {"write", "done"} /\ Returned(r) => th[r].ev = Trace

\* the session was saved once after a handler that aborted the response
C5_Witness ==
    \E r \in Reqs :
        /\ pc[r] = "done"
        /\ th[r].ev = Trace
        /\ Statuses(conn[r]) = <<StatusEv(403)>>

\* routeHandler goes from the session save to its return, for request r
AfterSave(r) == pc[r] = "write" /\ pc'[r] = "done"

\* the handler of request r returns a string
ReturnsString(r) == th[r].ri # 0 /\ routes[th[r].ri].handler.ret = "string"

\* C6 as stated: after the handler returned a string, it is written as the
\* body with status 200 and a Content-Length header if and only if the
\* response has not been started; otherwise nothing is written and the
\* status sent stays.
C6_Original ==
    [][\A r \in Reqs :
          AfterSave(r) /\ ReturnsString(r) =>
              IF ~ctx[r].responseStarted
              THEN /\ conn'[r].log = conn[r].log \o <<StatusEv(200), WriteEv("ret")>>
                   /\ conn'[r].hdr.ContentLength
              ELSE conn'[r] = conn[r]]_vars

\* C6, amended: after the handler returned a string, the dispatcher starts
\* the response with status 200 and a Content-Length header and writes the
\* string as the body (blank data instead when the request is a HEAD) if and
\* only if the response has not been started; otherwise nothing is written
\* and the status sent stays.
C6_ReturnValue ==
    [][\A r \in Reqs :
          AfterSave(r) /\ ReturnsString(r) =>
              IF ~ctx[r].responseStarted
              THEN /\ conn'[r].log = conn[r].log \o
                          <<StatusEv(200),
                            WriteEv(IF req[r].Method = "HEAD" THEN "" ELSE "ret")>>
                   /\ conn'[r].hdr.ContentLength
              ELSE conn'[r] = conn[r]]_vars

\* the string a handler returned is the whole response, with status 200
C6_Witness ==
    \E r \in Reqs :
        /\ pc[r] = "done"
        /\ Returned(r)
        /\ conn[r].log = <<StatusEv(200), WriteEv("ret")>>
        /\ conn[r].hdr.ContentLength

\* the handler of request r calls a method of its Context
CtxCall(r) == pc[r] = "handler" /\ th'[r].ops = th[r].ops + 1

\* C7: the response state of a Context only moves forward: the Context a
\* handler gets is not started, the first Write (or WriteString) on a Context
\* that is not started starts the response with status 200 before any body
\* byte, and a started Context stays started whatever is called on it.
C7_ForwardOnly ==
    [][\A r \in Reqs :
          /\ pc[r] = "idle" /\ pc'[r] = "load" =>
                ~ctx'[r].responseStarted /\ conn'[r].log = <<>>
          /\ CtxCall(r) /\ th'[r].op \in {"Write", "WriteString"}
                /\ ~ctx[r].responseStarted =>
                /\ ctx'[r].responseStarted
                /\ Len(conn'[r].log) = 2
                /\ conn'[r].log[1] = StatusEv(200)
                /\ IsWrite(conn'[r].log[2])
          /\ ctx[r].responseStarted /\ pc'[r] # "idle" => ctx'[r].responseStarted]_vars

\* a handler's first call was Write: status 200, then the data; a further
\* call left the response started
C7_Witness ==
    \E r \in Reqs :
        /\ th[r].ops = 2
        /\ SubSeq(conn[r].log, 1, 2) = <<StatusEv(200), WriteEv("data")>>
        /\ ctx[r].responseStarted

\* ------------------------------------------------ properties of the sessions
\* request r is between its session load and its session save
Unsaved(r) == pc[r] \in {"call", "handler", "save"}

\* C8, as stated, read at the states where no request is between its load
\* and its save and the cleaner is between two entries: the Session Ids of
\* the last-access map are those of the session map.
C8_SameIds ==
    (\A r \in Reqs : ~Unsaved(r)) /\ sweeper.pc # "del" =>
        DOMAIN LastAccess = DOMAIN Sessions

\* C9, as stated: when the cleaner has completed a pass, no session remains
\* whose last access time plus the session duration is less than or equal to
\* the time of the pass.
C9_ExpiredSwept ==
    sweeper.pc = "scan" /\ sweeper.todo = {} =>
        \A id \in Ids :
            id \in DOMAIN LastAccess /\ LastAccess[id] + sessionLength <= sweeper.start =>
                id \notin DOMAIN Sessions /\ id \notin DOMAIN LastAccess

\* the session has been saved for request r
Saved(r) == pc[r] \in {"write", "done"} /\ Returned(r)

\* the cookies the client replays after the response to request r
Replayed(r) == Received(jar, conn[r])

\* the replayed cookies name the Session Id of request r
SameId(r) ==
    GetSecureCookie(Replayed(r).sessionId, secret, now, "") = <<ctx[r].SessionId, TRUE>>

\* the contents a load finds for the cookies replayed after request r
Reloaded(r) ==
    LET w == Load(r, Replayed(r), ctx[r].SessionId)
    IN  w.heap[w.Session]

\* C10, as stated: on every backend that stores sessions, once a request has
\* loaded its session, set values in it and saved it, a load for the cookies
\* the client replays finds the saved contents (compared as their encoded
\* bytes), no cleaner pass having run.
C10_RoundTrip ==
    \A r \in Reqs :
        Saved(r) /\ SameId(r) /\ sessionHandler # InitSessionHandler("", FALSE) =>
            Marshal(Reloaded(r)) = Marshal(heap[ctx[r].Session])

\* ------------------------------------------------- properties of the cookies
\* the session load of request r completes in this step
Loads(r) == pc[r] = "load" /\ pc'[r] = "call"

\* the signature of cookie c is the HMAC of its value and timestamp under key
SignedWith(c, key) == c.sig = getCookieSig(key, c.val, c.ts)

\* cookie c is more than 31 days old at time t
TooOld(c, t) == t - c.ts > 31 * 86400

\* the signed cookie SetSecureCookie makes of val at time t
Issued(val, t) == Cookie(B64(val), t, getCookieSig(secret, B64(val), t))

\* the backend in use keeps sessions (it is not the null backend)
Storing == sessionHandler \in Backends \ {InitSessionHandler("", FALSE)}

\* C11, as stated, with a secret configured, on a backend that keeps sessions
\* and for a generated Session Id the store does not hold: a load for a
\* request with no valid signed sessionId cookie issues the Session Id it
\* generates as a signed sessionId cookie and attaches an empty Session.
C11_FreshSession ==
    [][\A r \in Reqs :
          /\ Loads(r)
          /\ ~GetSecureCookie(req[r].Cookies.sessionId, secret, now, "")[2]
          /\ secret # "" /\ Storing
          /\ ctx'[r].SessionId \notin DOMAIN Sessions \cup DOMAIN files
          => /\ conn'[r].hdr.sessionId = Issued(ctx'[r].SessionId, now)
             /\ heap'[ctx'[r].Session] = EmptySession]_vars

\* the sessionId cookie c fails the integrity test under key at time t
IntegrityFails(c, key, t) ==
    c.set /\ (c.fields < 3 \/ ~SignedWith(c, key) \/ TooOld(c, t))

\* C12, as stated: when the sessionId cookie of a request fails the integrity
\* test (bad signature, expired timestamp, fewer than three fields), the
\* session load completes, with a freshly issued Session Id cookie when a
\* secret is configured; request handling does not fail.
C12_IntegrityFailure ==
    [][\A r \in Reqs :
          /\ pc[r] = "load" /\ pc'[r] # "load"
          /\ Storing
          /\ IntegrityFails(req[r].Cookies.sessionId, secret, now)
          => /\ pc'[r] = "call"
             /\ secret # "" => conn'[r].hdr.sessionId = Issued(ctx'[r].SessionId, now)]_vars

\* request r is past its session load
Loaded(r) == pc[r] \in {"call", "handler", "save", "write", "done"}

\* C13, as stated: with no secret configured no signed cookie is issued, and
\* no sessionId cookie a request brought is verified.
C13_FailClosed ==
    secret = "" =>
        \A r \in Reqs :
            /\ ~conn[r].hdr.sessionId.set /\ ~conn[r].hdr.sessionData.set
            /\ Loaded(r) /\ Storing =>
                  ~GetSecureCookie(req[r].Cookies.sessionId, secret, now, "")[2]

\* C14: at the session load a whole sessionId cookie with a correct signature
\* is rejected when its timestamp is more than 31 days before the current
\* time (a fresh Session Id is issued when a secret is configured) and
\* accepted when it is at most 31 days old (its Session Id is the request's
\* and no cookie is issued).
C14_Expiry ==
    [][\A r \in Reqs :
          LET c == req[r].Cookies.sessionId
          IN  Loads(r) /\ Storing /\ c.set /\ c.fields = 3 /\ SignedWith(c, secret) =>
                /\ GetSecureCookie(c, secret, now, "")[2] = ~TooOld(c, now)
                /\ ~TooOld(c, now) =>
                      /\ ctx'[r].SessionId = UnB64(c.val)
                      /\ conn'[r].hdr.sessionId = conn[r].hdr.sessionId
                /\ TooOld(c, now) /\ secret # "" =>
                      conn'[r].hdr.sessionId = Issued(ctx'[r].SessionId, now)]_vars

\* a correctly signed cookie that is 31 days and a second old was rejected
\* and a fresh Session Id issued
C14_Witness ==
    \E r \in Reqs :
        LET c == req[r].Cookies.sessionId
        IN  /\ pc[r] = "call"
            /\ secret # ""
            /\ c.set /\ c.fields = 3 /\ SignedWith(c, secret)
            /\ now - c.ts = 31 * 86400 + 1
            /\ conn[r].hdr.sessionId = Issued(ctx[r].SessionId, now)

\* ------------------------------------------- properties of the configuration
\* the configuration names no store, or one that is not known, or the file
\* store without its directory (FileSessionHandler.Init returns false)
NoBackend == config.store \notin {"memory", "cookie", "file"}
                \/ (config.store = "file" /\ ~config.dir)

\* C15: the session handler is always one of the backends (never nil), it is
\* the null backend whenever the configuration names no store or an unknown
\* one or the chosen backend's Init fails, and the null backend attaches an
\* empty session at every load and changes nothing at a save.
C15_NullBackend ==
    /\ [](sessionHandler \in Backends /\ (NoBackend => sessionHandler = "dummy"))
    /\ [][\A r \in Reqs :
             sessionHandler = "dummy" =>
                /\ Loads(r) =>
                      /\ heap'[ctx'[r].Session] = EmptySession
                      /\ UNCHANGED <<storeVars, conn>>
                /\ pc[r] = "save" /\ pc'[r] = "write" =>
                      UNCHANGED <<storeVars, heap, ctx, conn>>]_vars

\* the file store was configured without its directory, and a session the
\* handler had set a value in has been saved to no effect
C15_Witness ==
    \E r \in Reqs :
        /\ config = Config("file", FALSE)
        /\ sessionHandler = "dummy"
        /\ Saved(r)
        /\ heap[ctx[r].Session] # EmptySession
        /\ Sessions = EmptyMap /\ files = EmptyMap

\* -------------------------------------------- properties of the memory store
\* request r reads or writes the maps of the memory store in this step
MapAccess(r) == Loads(r) \/ (pc[r] = "save" /\ pc'[r] = "write")

\* C16, as stated, for the cleaner and a request: no request reads or writes
\* the session map or the last-access map while the cleaner is between its
\* two deletes of an entry.
C16_MutualExclusion ==
    [][\A r \in Reqs : MapAccess(r) => sweeper.pc # "del"]_vars

\* the handler of request r changes its session in this step
Sets(r) == pc[r] = "handler" /\ th'[r].ops = th[r].ops + 1 /\ th'[r].op = "Session"

\* request r brought a valid signed sessionId cookie
Returning(r) == GetSecureCookie(req[r].Cookies.sessionId, secret, now, "")[2]

\* C17, as stated, for a request that brought its Session Id: a change the
\* handler of the request makes to its session changes neither the store's
\* entry for its Session Id nor the session of another request that is
\* between its load and its save.
C17_CopyOnLoad ==
    [][\A r \in Reqs :
          Sets(r) /\ Returning(r) =>
             /\ ctx[r].SessionId \in DOMAIN Sessions =>
                   heap'[Sessions[ctx[r].SessionId]] = heap[Sessions[ctx[r].SessionId]]
             /\ \A q \in Reqs \ {r} :
                   Unsaved(q) => heap'[ctx[q].Session] = heap[ctx[q].Session]]_vars

\* requests r and q had both loaded the same Session Id before either saved
Overlap(r, q) == q \in th[r].peers \/ r \in th[q].peers

\* C18, as stated: when two requests that brought the same Session Id had
\* both loaded it before either saved, and both have saved, the store holds
\* the session of one of them (the last to save), and it does not hold the
\* session the other one updated: those updates are lost.
C18_LastSaveWins ==
    \A r, q \in Reqs :
        /\ r # q /\ Overlap(r, q)
        /\ Returning(r) /\ Returning(q)
        /\ Saved(r) /\ Saved(q)
        /\ ctx[r].SessionId \in DOMAIN Sessions
        => \E last \in {r, q} :
              /\ Sessions[ctx[r].SessionId] = ctx[last].Session
              /\ \A other \in {r, q} \ {last} :
                    th[other].ops > 0 => ctx[other].Session # Sessions[ctx[r].SessionId]

\* C19, as stated: when the cleaner examines a session whose last access
\* time plus the session duration is greater than the current time, it
\* leaves the session map as it is and goes on to the next entry.
C19_LiveKept ==
    [][\A id \in Ids :
          /\ sweeper.pc = "scan"
          /\ id \in sweeper.todo /\ id \notin sweeper'.todo
          /\ id \in DOMAIN LastAccess /\ LastAccess[id] + sessionLength > now
          => Sessions' = Sessions /\ sweeper'.pc = "scan"]_vars

\* ------------------------------------------------ properties of the response
\* C20, as stated: for every request, whatever the handler and the dispatcher
\* call on the Context, conn.StartResponse is invoked at most once.
C20_StartedOnce ==
    \A r \in Reqs : Len(Statuses(conn[r])) <= 1

\* the response of request r has been started
Started(r) == Statuses(conn[r]) # <<>>

\* the Set-Cookie headers set on a connection so far
SetCookies(h) == {name \in {"sessionId", "sessionData"} : h[name].set}

\* C21, as stated: every Set-Cookie header a request produces is set before
\* the request's response is started; once the response is started, the
\* cookies set on the connection are those that went out with the status
\* line, the sessionData cookie of the cookie backend's save among them.
C21_CookiesBeforeStart ==
    \A r \in Reqs :
        Started(r) =>
            \A name \in SetCookies(conn[r].hdr) : conn[r].sent[name] = conn[r].hdr[name]

\* routeHandler has returned for request r, which was not served a file
Handled(r) == pc[r] = "done"

\* C22, as stated: when routeHandler returns for a request that is not
\* served as a static file, the response of the request has been started,
\* whatever the matched handler returns and whether or not it wrote.
C22_StartedOnReturn ==
    \A r \in Reqs : Handled(r) => Started(r)

====
